---- MODULE Spec2Model ----
(***************************************************************************)
(* Model of BFTWithoutSignatures/messenger/messenger.go: the outbound      *)
(* pipeline (Broadcast, the Byzantine injector, the per-peer sender tasks, *)
(* ReplyClient and the metrics counters) and the inbound dispatcher        *)
(* (Subscribe's receiver tasks, HandleMessage and the lazily created       *)
(* instance queues).                                                       *)
(***************************************************************************)
EXTENDS Integers, Sequences, FiniteSets, TLC

\* ------------------------------------------------------------------ bounds
N == 4
MaxTag == 2
MaxCalls == 2
MaxFrames == 2
MaxClients == 2
MaxRequests == 3

\* ------------------------------------------------------- program constants
TickerSeconds == 10
\* math.MaxUint32/2, folded by the Go compiler
HalfMaxUint32 == 2147483647
\* make(chan []byte, 100)
RequestCapacity == 100

Servers == 0..(N - 1)
Callers == 1..MaxCalls
Scenarios == {"NORMAL", "IDLE", "BC_ATTACK", "HALF_&_HALF", "BZ_ALL"}

VARIABLES
    scenario, byzantine, ID,      \* config.Scenario, variables.Byzantine, variables.ID
    fatal,                        \* the process ended in logger.ErrLogger.Fatal
    pending,                      \* messages the consensus layer is still to Broadcast
    bpc, bi, bmsg, borig,         \* per Broadcast call: position, loop index i, message, argument
    bhanded, bhandedAt,           \* per call and peer: the message handed, and when (s after the call)
    btimedOut, belapsed,          \* per call: peers whose attempt timed out, seconds spent in timeouts
    MessageChannel,               \* keys of the MessageChannel map
    tx,                           \* sender tasks of TransmitMessages: [pc, msg]
    enq, wire,                    \* per peer: messages received from MessageChannel[i], frames sent
    MsgComplexity, MsgSize, MsgMutex,
    rc,                           \* the ReplyClient call: [pc, frame]
    sentCount, sentBytes,         \* completed sends: ACK received or reply published
    rx,                           \* receiver tasks of Subscribe: [pc, frame]
    nframes, acks,                \* frames received so far; per peer, ACKs sent
    hd,                           \* the HandleMessage goroutines, in spawn order
    Channel, Mutex,               \* the typed channel maps and their locks
    made,                         \* every make(chan ...) of HandleMessage: [ch, by]
    delivered,                    \* what the consumers received: [ch, From, body, h]
    RequestChannel,               \* the buffer of RequestChannel, oldest first
    fw,                           \* the handleRequest goroutines, in spawn order: [pc, req, from]
    nreq,                         \* client requests received so far; request k is the k-th
    consumed                      \* what the consumer of RequestChannel received

cfgVars == <<scenario, byzantine, ID>>
callVars == <<pending, bpc, bi, bmsg, borig, bhanded, bhandedAt, btimedOut, belapsed>>
txVars == <<tx, enq, wire>>
metricVars == <<MsgComplexity, MsgSize, MsgMutex, sentCount, sentBytes>>
outVars == <<callVars, MessageChannel, txVars, metricVars, rc>>
inVars == <<rx, nframes, acks, hd, Channel, Mutex, made, delivered>>
reqVars == <<RequestChannel, fw, nreq, consumed>>

\* ------------------------------------------------------------ gob encoding
\* A byte string is a sequence of naturals. A gob value is its type id followed
\* by its fields; a []byte or nested field is length-prefixed; a string is one code.
GobId == [BcMessage |-> 1, RbMessage |-> 2, MvcMessage |-> 3, VcMessage |-> 4,
          AbcMessage |-> 5, SSVCMessage |-> 6, SSABCMessage |-> 7,
          ssvcDecision |-> 8, Message |-> 9, Reply |-> 10]

TypeNames == <<"BVB", "BC", "RB", "RB_ABC", "MVC", "VC", "ABC", "SSVC", "SSVCDS", "SSABC", "OTHER">>
StringCode(s) == CHOOSE k \in 1..Len(TypeNames) : TypeNames[k] = s
CodeString(k) == TypeNames[k]

StageLabels == <<"init", "echo", "ready">>
LabelCode(s) == CHOOSE k \in 1..Len(StageLabels) : StageLabels[k] = s
CodeLabel(k) == StageLabels[k]

EmptyMap == [x \in {} |-> <<>>]

\* strconv.Itoa for one decimal digit, and strconv.Atoi with its error dropped
Itoa(n) == <<48 + n>>
Atoi(s) == IF Len(s) = 1 /\ s[1] \in 48..57 THEN s[1] - 48 ELSE 0

\* Go's % on a signed int: the result takes the sign of the dividend
GoRem(a, b) == IF a >= 0 THEN a % b ELSE 0 - ((0 - a) % b)

EncodeBc(m) == <<GobId.BcMessage, m.Tag, m.Value>>
CanDecodeBc(p) == Len(p) = 3 /\ p[1] = GobId.BcMessage
DecodeBc(p) == [Tag |-> p[2], Value |-> p[3]]

EncodeMvc(m) == <<GobId.MvcMessage, m.Cid, Len(m.Value)>> \o m.Value
CanDecodeMvc(p) == Len(p) >= 3 /\ p[1] = GobId.MvcMessage /\ Len(p) = 3 + p[3]
DecodeMvc(p) == [Cid |-> p[2], Value |-> SubSeq(p, 4, 3 + p[3])]

EncodeVc(m) == <<GobId.VcMessage, m.Vcid, Len(m.Value)>> \o m.Value
CanDecodeVc(p) == Len(p) >= 3 /\ p[1] = GobId.VcMessage /\ Len(p) = 3 + p[3]
DecodeVc(p) == [Vcid |-> p[2], Value |-> SubSeq(p, 4, 3 + p[3])]

EncodeAbc(m) == <<GobId.AbcMessage, m.Num, Len(m.Value)>> \o m.Value
CanDecodeAbc(p) == Len(p) >= 3 /\ p[1] = GobId.AbcMessage /\ Len(p) = 3 + p[3]
DecodeAbc(p) == [Num |-> p[2], Value |-> SubSeq(p, 4, 3 + p[3])]

EncodeRb(m) == <<GobId.RbMessage, m.Rbid, StringCode(m.Type), Len(m.Value)>> \o m.Value
CanDecodeRb(p) == Len(p) >= 4 /\ p[1] = GobId.RbMessage /\ Len(p) = 4 + p[4]
DecodeRb(p) == [Rbid |-> p[2], Type |-> CodeString(p[3]), Value |-> SubSeq(p, 5, 4 + p[4])]

\* The envelope types.Message{Payload, Type, From, Signature}
EncodeMessage(m) ==
    <<GobId.Message, StringCode(m.Type), m.From, Len(m.Payload)>> \o m.Payload \o m.Signature
CanDecodeMessage(p) == Len(p) >= 4 /\ p[1] = GobId.Message /\ Len(p) >= 4 + p[4]
DecodeMessage(p) ==
    [Payload |-> SubSeq(p, 5, 4 + p[4]), Type |-> CodeString(p[2]), From |-> p[3],
     Signature |-> SubSeq(p, 5 + p[4], Len(p))]

\* Content map[string][]entry of SSVCMessage / SSABCMessage. gob writes a map in
\* Go's map iteration order, which is not fixed: ord is the order of one encoding.
RECURSIVE EncodeEntries(_, _)
EncodeEntries(es, hasNum) ==
    IF es = <<>> THEN <<>>
    ELSE (<<Len(es[1].Value)>> \o es[1].Value \o (IF hasNum THEN <<es[1].Num>> ELSE <<>>))
         \o EncodeEntries(Tail(es), hasNum)

RECURSIVE EncodeStages(_, _, _)
EncodeStages(content, ord, hasNum) ==
    IF ord = <<>> THEN <<>>
    ELSE (<<LabelCode(ord[1]), Len(content[ord[1]])>> \o EncodeEntries(content[ord[1]], hasNum))
         \o EncodeStages(content, Tail(ord), hasNum)

RECURSIVE ParseEntries(_, _, _, _)
ParseEntries(p, pos, n, hasNum) ==
    IF n = 0 THEN [list |-> <<>>, pos |-> pos]
    ELSE LET len == p[pos]
             val == SubSeq(p, pos + 1, pos + len)
             after == pos + len + 1
             e == IF hasNum THEN [Value |-> val, Num |-> p[after]] ELSE [Value |-> val]
             rest == ParseEntries(p, IF hasNum THEN after + 1 ELSE after, n - 1, hasNum)
         IN [list |-> <<e>> \o rest.list, pos |-> rest.pos]

RECURSIVE ParseStages(_, _, _, _)
ParseStages(p, pos, n, hasNum) ==
    IF n = 0 THEN EmptyMap
    ELSE LET r == ParseEntries(p, pos + 2, p[pos + 1], hasNum)
         IN (CodeLabel(p[pos]) :> r.list) @@ ParseStages(p, r.pos, n - 1, hasNum)

\* The orders in which the keys of a Content map can be written
MapOrders(content) ==
    {o \in [1..Cardinality(DOMAIN content) -> DOMAIN content] :
        \A a, b \in DOMAIN o : a # b => o[a] # o[b]}

EncodeSSVC(m, ord) ==
    <<GobId.SSVCMessage, m.SSVCid, Len(ord)>> \o EncodeStages(m.Content, ord, FALSE)
CanDecodeSSVC(p) == Len(p) >= 3 /\ p[1] = GobId.SSVCMessage
DecodeSSVC(p) == [SSVCid |-> p[2], Content |-> ParseStages(p, 4, p[3], FALSE)]

EncodeSSABC(m, ord) == <<GobId.SSABCMessage, Len(ord)>> \o EncodeStages(m.Content, ord, TRUE)
CanDecodeSSABC(p) == Len(p) >= 2 /\ p[1] = GobId.SSABCMessage
DecodeSSABC(p) == [Content |-> ParseStages(p, 3, p[2], TRUE)]

\* ssvcDecision{Vector map[int][]byte, SSVCid}; the vector is kept as its bytes
EncodeDecision(m) == <<GobId.ssvcDecision, m.SSVCid, Len(m.Vector)>> \o m.Vector
CanDecodeDecision(p) == Len(p) >= 3 /\ p[1] = GobId.ssvcDecision /\ Len(p) = 3 + p[3]
DecodeDecision(p) == [SSVCid |-> p[2], Vector |-> SubSeq(p, 4, 3 + p[3])]

EncodeReply(r) == <<GobId.Reply, Len(r.Value)>> \o r.Value

\* --------------------------------------------------- threshenc and types
\* threshenc.SignMessage / VerifyMessage and types.NewMessage are not in src/.
SignMessage(payload, id) == <<id + 1, Len(payload)>>
VerifyMessage(payload, signature, from) == signature = SignMessage(payload, from)
NewMessage(payload, type) ==
    [Payload |-> payload, Type |-> type, From |-> ID, Signature |-> SignMessage(payload, ID)]

NoMsg == [Payload |-> <<>>, Type |-> "-", From |-> 0, Signature |-> <<>>]
FatalMsg == [Payload |-> <<>>, Type |-> "fatal", From |-> 0, Signature |-> <<>>]

\* ------------------------------------------------------ Byzantine injector
\* An injector that left the value as the caller gave it
KeepBcValue(msg, receiver) == msg.Value

\* An injector that computed the value from the one it was given
ToggleBcValue(msg, receiver) == (msg.Value + 1 + receiver) % 2

\* modifyMessageBC: the value of a BVB/BC message by its tag
ModifyBcValue(msg, receiver) ==
    LET r == GoRem(msg.Tag, 3)
    IN CASE r = 0 -> receiver % 2
         [] r = 1 -> 0
         [] r = 2 -> 1
         [] OTHER -> msg.Value

modifyMessageBC(message, receiver) ==
    IF ~CanDecodeBc(message.Payload) THEN FatalMsg
    ELSE LET msg == DecodeBc(message.Payload)
         IN NewMessage(EncodeBc([msg EXCEPT !.Value = ModifyBcValue(msg, receiver)]),
                       message.Type)

\* valueToSend of modifyMessage, a Go string
ValueToSend(receiver, halfScenario) == IF halfScenario THEN Itoa(receiver % 2) ELSE Itoa(0)

\* The loops over "init", "echo", "ready" that overwrite every entry of Content
SetStageValues(content, value, withNum) ==
    [t \in DOMAIN content |->
        IF \E k \in 1..Len(StageLabels) : StageLabels[k] = t
        THEN [k \in 1..Len(content[t]) |->
                IF withNum
                THEN [content[t][k] EXCEPT !.Value = value, !.Num = HalfMaxUint32]
                ELSE [content[t][k] EXCEPT !.Value = value]]
        ELSE content[t]]

\* The RB / RB_ABC branch: the typed message nested in RbMessage.Value
ModifyNested(msg, valueToSend) ==
    CASE msg.Type = "MVC" ->
            IF ~CanDecodeMvc(msg.Payload) THEN FatalMsg
            ELSE NewMessage(EncodeMvc([DecodeMvc(msg.Payload) EXCEPT !.Value = valueToSend]),
                            msg.Type)
      [] msg.Type = "VC" ->
            IF ~CanDecodeVc(msg.Payload) THEN FatalMsg
            ELSE NewMessage(EncodeVc([DecodeVc(msg.Payload) EXCEPT !.Value = valueToSend]),
                            msg.Type)
      [] msg.Type = "ABC" ->
            IF ~CanDecodeAbc(msg.Payload) THEN FatalMsg
            ELSE NewMessage(EncodeAbc([DecodeAbc(msg.Payload) EXCEPT !.Value = valueToSend]),
                            msg.Type)
      [] OTHER -> NewMessage(<<>>, msg.Type)

\* modifyMessage; ord is the map order the gob encoder happens to use
modifyMessage(message, receiver, halfScenario, ord) ==
    LET valueToSend == ValueToSend(receiver, halfScenario)
        p == message.Payload
    IN CASE message.Type \in {"BVB", "BC"} ->
              IF ~CanDecodeBc(p) THEN FatalMsg
              ELSE NewMessage(EncodeBc([DecodeBc(p) EXCEPT !.Value = Atoi(valueToSend)]),
                              message.Type)
         [] message.Type \in {"RB", "RB_ABC"} ->
              IF ~CanDecodeRb(p) THEN FatalMsg
              ELSE LET msg1 == DecodeRb(p)
                   IN IF ~CanDecodeMessage(msg1.Value) THEN FatalMsg
                      ELSE LET temp == ModifyNested(DecodeMessage(msg1.Value), valueToSend)
                           IN IF temp = FatalMsg THEN FatalMsg
                              ELSE NewMessage(
                                     EncodeRb([msg1 EXCEPT !.Value = EncodeMessage(temp)]),
                                     message.Type)
         [] message.Type = "SSVC" ->
              IF ~CanDecodeSSVC(p) THEN FatalMsg
              ELSE LET msg == DecodeSSVC(p)
                       new == [msg EXCEPT !.Content = SetStageValues(@, valueToSend, FALSE)]
                   IN NewMessage(EncodeSSVC(new, ord), message.Type)
         [] message.Type = "SSABC" ->
              IF ~CanDecodeSSABC(p) THEN FatalMsg
              ELSE LET msg == DecodeSSABC(p)
                       new == [msg EXCEPT !.Content = SetStageValues(@, valueToSend, TRUE)]
                   IN NewMessage(EncodeSSABC(new, ord), message.Type)
         [] OTHER -> NewMessage(<<>>, message.Type)

\* The orders the encoder can use for this message (one, unless it holds a map)
EncoderOrders(message) ==
    CASE message.Type = "SSVC" /\ CanDecodeSSVC(message.Payload) ->
              MapOrders(DecodeSSVC(message.Payload).Content)
      [] message.Type = "SSABC" /\ CanDecodeSSABC(message.Payload) ->
              MapOrders(DecodeSSABC(message.Payload).Content)
      [] OTHER -> {<<>>}

\* ------------------------------------------------------------- Broadcast
\* A Broadcast without the IDLE return
NeverDrop == FALSE
\* A Broadcast that tested the scenario and not the Byzantine flag
ModifyWhenHonest == scenario \in {"HALF_&_HALF", "BZ_ALL"}
\* A Broadcast without the SSVCDS test
NoExempt(type) == FALSE
\* An InitializeMessenger without the "Not myself" continue
AllServers == Servers

\* if (config.Scenario == "IDLE") && (variables.Byzantine) {return}
IdleDrop == scenario = "IDLE" /\ byzantine

\* if message.Type != "SSVCDS"
Exempt(type) == type = "SSVCDS"

UsesBcAttack(type) == scenario = "BC_ATTACK" /\ byzantine /\ type \in {"BVB", "BC"}
UsesModify == scenario \in {"HALF_&_HALF", "BZ_ALL"} /\ byzantine

\* The body of the loop before the select: the message for recipient i
Inject(message, i, ord) ==
    IF ~Exempt(message.Type)
    THEN IF UsesBcAttack(message.Type) THEN modifyMessageBC(message, i)
         ELSE IF UsesModify THEN modifyMessage(message, i, scenario = "HALF_&_HALF", ord)
         ELSE message
    ELSE message

\* InitializeMessenger: the peers given a socket pair and a MessageChannel
MessengerPeers == {i \in Servers : i # ID}
\* TransmitMessages: the peers given a sender task
TransmitPeers == {i \in Servers : i # ID}

NoneHanded == [i \in Servers |-> NoMsg]
NeverHanded == [i \in Servers |-> 0 - 1]

\* for i := j; i < N; i++ { if i == ID {continue}; inject; select ... }: from
\* index j with message m to the next select, or out of the loop
LoopTo(c, j, m) ==
    LET k == IF j = ID THEN j + 1 ELSE j
    IN IF k >= N
       THEN /\ bpc' = [bpc EXCEPT ![c] = "done"]
            /\ bi' = [bi EXCEPT ![c] = k]
            /\ bmsg' = [bmsg EXCEPT ![c] = m]
            /\ UNCHANGED fatal
       ELSE \E ord \in EncoderOrders(m) :
              LET x == Inject(m, k, ord)
              IN IF x = FatalMsg
                 THEN fatal' = TRUE /\ UNCHANGED <<bpc, bi, bmsg>>
                 ELSE /\ bmsg' = [bmsg EXCEPT ![c] = x]
                      /\ bi' = [bi EXCEPT ![c] = k]
                      /\ bpc' = [bpc EXCEPT ![c] = "select"]
                      /\ UNCHANGED fatal

\* Broadcast is entered with the next message of the consensus layer
BroadcastCall(c) ==
    /\ ~fatal /\ bpc[c] = "idle"
    /\ \A d \in Callers : d < c => bpc[d] # "idle"
    /\ \E m \in pending :
         /\ pending' = pending \ {m}
         /\ borig' = [borig EXCEPT ![c] = m]
         /\ IF IdleDrop
            THEN /\ bpc' = [bpc EXCEPT ![c] = "done"]
                 /\ bmsg' = [bmsg EXCEPT ![c] = m]
                 /\ UNCHANGED <<bi, fatal>>
            ELSE LoopTo(c, 0, m)
    /\ UNCHANGED <<bhanded, bhandedAt, btimedOut, belapsed>>

\* case MessageChannel[i] <- message: what the call records, then on with i+1
BroadcastHandoff(c) ==
    /\ ~fatal /\ bpc[c] = "select"
    /\ bhanded' = [bhanded EXCEPT ![c][bi[c]] = bmsg[c]]
    /\ bhandedAt' = [bhandedAt EXCEPT ![c][bi[c]] = belapsed[c]]
    /\ LoopTo(c, bi[c] + 1, bmsg[c])
    /\ UNCHANGED <<pending, borig, btimedOut, belapsed>>

\* A Broadcast that returned on the first timeout
ExpireReturns(c) ==
    /\ ~fatal /\ bpc[c] = "select"
    /\ btimedOut' = [btimedOut EXCEPT ![c] = @ \cup {bi[c]}]
    /\ belapsed' = [belapsed EXCEPT ![c] = @ + TickerSeconds]
    /\ bpc' = [bpc EXCEPT ![c] = "done"]
    /\ UNCHANGED <<pending, borig, bhanded, bhandedAt, bi, bmsg, fatal>>

\* case <-timeout.C: the ticker's 10 s have passed; drop for this peer, then on with i+1
BroadcastExpire(c) ==
    /\ ~fatal /\ bpc[c] = "select"
    /\ btimedOut' = [btimedOut EXCEPT ![c] = @ \cup {bi[c]}]
    /\ belapsed' = [belapsed EXCEPT ![c] = @ + TickerSeconds]
    /\ LoopTo(c, bi[c] + 1, bmsg[c])
    /\ UNCHANGED <<pending, borig, bhanded, bhandedAt>>

\* The select of Broadcast against the sender task of peer i: the send on the
\* unbuffered MessageChannel[i] completes when that task is at its receive.
BroadcastSend(c) ==
    /\ BroadcastHandoff(c)
    /\ bi[c] \in MessageChannel /\ bi[c] \in DOMAIN tx
    /\ tx[bi[c]].pc = "range"
    /\ tx' = [tx EXCEPT ![bi[c]] = [pc |-> "send", msg |-> bmsg[c]]]
    /\ enq' = [enq EXCEPT ![bi[c]] = Append(@, bmsg[c])]
    /\ UNCHANGED <<cfgVars, reqVars, inVars, MessageChannel, wire, metricVars, rc>>

\* The ticker fires: the sender task of peer i took nothing for 10 s
BroadcastTimeout(c) ==
    /\ BroadcastExpire(c)
    /\ ~(bi[c] \in DOMAIN tx /\ tx[bi[c]].pc = "range")
    /\ UNCHANGED <<cfgVars, reqVars, inVars, MessageChannel, txVars, metricVars, rc>>

BroadcastEnter(c) ==
    BroadcastCall(c) /\ UNCHANGED <<cfgVars, reqVars, inVars, MessageChannel, txVars, metricVars, rc>>

\* ------------------------------------------------------ TransmitMessages
NoTask == <<"-", 0>>
TxTask(i) == <<"tx", i>>
RcTask == <<"rc", 0>>

\* A sender that put each frame ahead of the earlier ones
PutAhead(w, frame) == <<frame>> \o w
\* A size counter that counted frames, not bytes
AddOne(size, frame) == size + 1

\* SendSockets[i].SendBytes(w.Bytes(), 0): the frame goes on the wire after the earlier ones
PutOnWire(w, frame) == Append(w, frame)
\* variables.MsgSize += int64(len(w.Bytes()))
AddSize(size, frame) == size + Len(frame)

\* A sender task that took the next message without waiting for the ACK
SendNoWait(i) ==
    /\ ~fatal /\ tx[i].pc = "send"
    /\ wire' = [wire EXCEPT ![i] = Append(@, EncodeMessage(tx[i].msg))]
    /\ tx' = [tx EXCEPT ![i] = [pc |-> "range", msg |-> NoMsg]]
    /\ UNCHANGED <<cfgVars, reqVars, inVars, fatal, callVars, MessageChannel, enq, metricVars, rc>>

TxSend(i) ==
    /\ ~fatal /\ tx[i].pc = "send"
    /\ wire' = [wire EXCEPT ![i] = PutOnWire(@, EncodeMessage(tx[i].msg))]
    /\ tx' = [tx EXCEPT ![i].pc = "ack"]
    /\ UNCHANGED <<cfgVars, reqVars, inVars, fatal, callVars, MessageChannel, enq, metricVars, rc>>

\* SendSockets[i].Recv(0) returns: the peer's ACK has arrived
TxAck(i) ==
    /\ ~fatal /\ tx[i].pc = "ack"
    /\ tx' = [tx EXCEPT ![i].pc = "lock"]
    /\ sentCount' = sentCount + 1
    /\ sentBytes' = sentBytes + Len(EncodeMessage(tx[i].msg))
    /\ UNCHANGED <<cfgVars, reqVars, inVars, fatal, callVars, MessageChannel, enq, wire,
                   MsgComplexity, MsgSize, MsgMutex, rc>>

\* variables.MsgMutex.Lock()
TxLock(i) ==
    /\ ~fatal /\ tx[i].pc = "lock" /\ MsgMutex = NoTask
    /\ MsgMutex' = TxTask(i)
    /\ tx' = [tx EXCEPT ![i].pc = "count"]
    /\ UNCHANGED <<cfgVars, reqVars, inVars, fatal, callVars, MessageChannel, enq, wire,
                   MsgComplexity, MsgSize, sentCount, sentBytes, rc>>

\* MsgComplexity++; MsgSize += len; MsgMutex.Unlock()
TxAccount(i) ==
    /\ ~fatal /\ tx[i].pc = "count"
    /\ MsgComplexity' = MsgComplexity + 1
    /\ MsgSize' = AddSize(MsgSize, EncodeMessage(tx[i].msg))
    /\ MsgMutex' = NoTask
    /\ tx' = [tx EXCEPT ![i] = [pc |-> "range", msg |-> NoMsg]]
    /\ UNCHANGED <<cfgVars, reqVars, inVars, fatal, callVars, MessageChannel, enq, wire,
                   sentCount, sentBytes, rc>>

\* ------------------------------------------------------------ ReplyClient
Replies == {[Value |-> <<7>>], [Value |-> <<7, 8>>]}
IdleReply == [pc |-> "idle", frame |-> <<>>]

\* Encode the reply and ResponseSockets[to].SendBytes
RcPublish ==
    /\ ~fatal /\ rc.pc = "idle"
    /\ \E reply \in Replies :
         /\ rc' = [pc |-> "lock", frame |-> EncodeReply(reply)]
         /\ sentBytes' = sentBytes + Len(EncodeReply(reply))
    /\ sentCount' = sentCount + 1
    /\ UNCHANGED <<cfgVars, reqVars, inVars, fatal, callVars, MessageChannel, txVars,
                   MsgComplexity, MsgSize, MsgMutex>>

\* variables.MsgMutex.Lock()
RcLock ==
    /\ ~fatal /\ rc.pc = "lock" /\ MsgMutex = NoTask
    /\ MsgMutex' = RcTask
    /\ rc' = [rc EXCEPT !.pc = "count"]
    /\ UNCHANGED <<cfgVars, reqVars, inVars, fatal, callVars, MessageChannel, txVars,
                   MsgComplexity, MsgSize, sentCount, sentBytes>>

\* MsgComplexity++; MsgSize += len; MsgMutex.Unlock()
RcAccount ==
    /\ ~fatal /\ rc.pc = "count"
    /\ MsgComplexity' = MsgComplexity + 1
    /\ MsgSize' = AddSize(MsgSize, rc.frame)
    /\ MsgMutex' = NoTask
    /\ rc' = [rc EXCEPT !.pc = "done"]
    /\ UNCHANGED <<cfgVars, reqVars, inVars, fatal, callVars, MessageChannel, txVars, sentCount, sentBytes>>

\* ------------------------------------------------- messages to broadcast
BcMessages(type) ==
    {NewMessage(EncodeBc([Tag |-> t, Value |-> v]), type) : t \in 0..MaxTag, v \in 0..1}

MvcInput == NewMessage(EncodeMvc([Cid |-> 1, Value |-> <<55>>]), "MVC")
VcInput == NewMessage(EncodeVc([Vcid |-> 1, Value |-> <<55, 56>>]), "VC")
AbcInput == NewMessage(EncodeAbc([Num |-> 1, Value |-> <<55>>]), "ABC")

RbMessages(type) ==
    {NewMessage(EncodeRb([Rbid |-> 1, Type |-> inner.Type, Value |-> EncodeMessage(inner)]), type) :
        inner \in {MvcInput, VcInput, AbcInput}}

SsvcContents ==
    {[init |-> <<[Value |-> <<55>>]>>, echo |-> <<[Value |-> <<49>>], [Value |-> <<56, 57>>]>>],
     [ready |-> <<[Value |-> <<55>>]>>]}
SsabcContents ==
    {[init |-> <<[Value |-> <<55>>, Num |-> 3]>>, ready |-> <<[Value |-> <<48>>, Num |-> 4]>>],
     [echo |-> <<[Value |-> <<55, 56>>, Num |-> 3]>>]}

SsvcMessages ==
    UNION {{NewMessage(EncodeSSVC([SSVCid |-> 5, Content |-> c], o), "SSVC") : o \in MapOrders(c)} :
              c \in SsvcContents}
SsabcMessages ==
    UNION {{NewMessage(EncodeSSABC([Content |-> c], o), "SSABC") : o \in MapOrders(c)} :
              c \in SsabcContents}
DecisionMessages ==
    {NewMessage(EncodeDecision([SSVCid |-> 5, Vector |-> v]), "SSVCDS") : v \in {<<1, 55>>, <<>>}}

\* Every type HandleMessage knows, as the consensus layer builds them
RichMessages ==
    BcMessages("BVB") \cup BcMessages("BC") \cup RbMessages("RB") \cup RbMessages("RB_ABC")
    \cup {MvcInput, VcInput, AbcInput} \cup SsvcMessages \cup SsabcMessages \cup DecisionMessages

\* The two broadcasts of the pipeline runs: an injectable one, an exempt one
PipelineMessages ==
    {NewMessage(EncodeBc([Tag |-> 0, Value |-> 1]), "BVB"),
     NewMessage(EncodeDecision([SSVCid |-> 5, Vector |-> <<1, 55>>]), "SSVCDS")}

\* -------------------------------------------------------------- Subscribe
\* Subscribe: the peers given a receiver task
SubscribePeers == {i \in Servers : i # ID}

SignedBy(payload, type, from) ==
    [Payload |-> payload, Type |-> type, From |-> from, Signature |-> SignMessage(payload, from)]
\* The same envelope under a signature that is not the sender's
Forged(m) == [m EXCEPT !.Signature = SignMessage(m.Payload, m.From + 1)]

OneStage == [init |-> <<[Value |-> <<55>>]>>]
OneStageNum == [init |-> <<[Value |-> <<55>>, Num |-> 3]>>]

\* What peer i can put in an envelope: every type of the switch, a type it does
\* not know, RB with a sub-type initRBChannels did not register, an empty payload
PeerMessages(i) ==
    {SignedBy(EncodeBc([Tag |-> 1, Value |-> 1]), "BVB", i),
     SignedBy(EncodeBc([Tag |-> 1, Value |-> 0]), "BVB", i),
     SignedBy(EncodeBc([Tag |-> 1, Value |-> 0]), "BC", i),
     SignedBy(EncodeRb([Rbid |-> 1, Type |-> "MVC", Value |-> <<55>>]), "RB", i),
     SignedBy(EncodeRb([Rbid |-> 1, Type |-> "VC", Value |-> <<55>>]), "RB", i),
     SignedBy(EncodeRb([Rbid |-> 1, Type |-> "ABC", Value |-> <<55>>]), "RB", i),
     SignedBy(EncodeRb([Rbid |-> 1, Type |-> "ABC", Value |-> <<55>>]), "RB_ABC", i),
     SignedBy(EncodeMvc([Cid |-> 1, Value |-> <<55>>]), "MVC", i),
     SignedBy(EncodeMvc([Cid |-> 2, Value |-> <<56>>]), "MVC", i),
     SignedBy(EncodeVc([Vcid |-> 1, Value |-> <<55>>]), "VC", i),
     SignedBy(EncodeAbc([Num |-> 1, Value |-> <<55>>]), "ABC", i),
     SignedBy(EncodeSSVC([SSVCid |-> 5, Content |-> OneStage], <<"init">>), "SSVC", i),
     SignedBy(EncodeDecision([SSVCid |-> 5, Vector |-> <<1, 55>>]), "SSVCDS", i),
     SignedBy(EncodeSSABC([Content |-> OneStageNum], <<"init">>), "SSABC", i),
     SignedBy(<<55>>, "OTHER", i),
     SignedBy(<<>>, "MVC", i)}

\* The frames the receive socket of peer i can deliver
InFrames(i) ==
    {EncodeMessage(m) : m \in PeerMessages(i)}
    \cup {EncodeMessage(Forged(m)) : m \in PeerMessages(i)}
    \cup {<<>>}

NoChan == [t |-> "-", k |-> 0, n |-> 0]
GlobalChan(t) == [t |-> t, k |-> 0, n |-> 0]
NoBody == <<>>

IdleRx == [pc |-> "recv", frame |-> <<>>]

\* message, err := ReceiveSockets[i].RecvBytes(0); go HandleMessage(message)
RxRecv(i) ==
    /\ ~fatal /\ rx[i].pc = "recv" /\ nframes < MaxFrames
    /\ \E f \in InFrames(i) :
         /\ rx' = [rx EXCEPT ![i] = [pc |-> "ack", frame |-> f]]
         /\ hd' = Append(hd, [pc |-> "start", peer |-> i, frame |-> f, msg |-> NoMsg,
                              table |-> "-", lock |-> "-", key |-> 0,
                              ch |-> NoChan, body |-> NoBody])
    /\ nframes' = nframes + 1
    /\ UNCHANGED <<cfgVars, reqVars, outVars, fatal, acks, Channel, Mutex, made, delivered>>

\* A receiver that called HandleMessage itself and sent the ACK when it returned
AckWhenHandled(i) ==
    /\ ~fatal /\ rx[i].pc = "ack"
    /\ \A h \in DOMAIN hd : hd[h].peer = i => hd[h].pc = "done"
    /\ rx' = [rx EXCEPT ![i] = [pc |-> "recv", frame |-> <<>>]]
    /\ acks' = [acks EXCEPT ![i] = @ + 1]
    /\ UNCHANGED <<cfgVars, reqVars, outVars, fatal, nframes, hd, Channel, Mutex, made, delivered>>

\* ReceiveSockets[i].Send("", 0)
RxAck(i) ==
    /\ ~fatal /\ rx[i].pc = "ack"
    /\ rx' = [rx EXCEPT ![i] = IdleRx]
    /\ acks' = [acks EXCEPT ![i] = @ + 1]
    /\ UNCHANGED <<cfgVars, reqVars, outVars, fatal, nframes, hd, Channel, Mutex, made, delivered>>

\* ---------------------------------------------------------- HandleMessage
\* A handler without the signature test
Unverified(message) == TRUE
\* A handler whose signature test fails for every frame
NeverVerified(message) == FALSE
\* A handler that did not wait for the lock
NoLock(l) == TRUE

\* if !(threshenc.VerifyMessage(message.Payload, message.Signature, message.From)) { return }
Authentic(message) == VerifyMessage(message.Payload, message.Signature, message.From)

KeyedTypes == {"BVB", "BC", "RB", "MVC", "VC", "SSVC", "SSVCDS"}
StreamTypes == {"RB_ABC", "ABC", "SSABC"}
\* The maps: BvbChannel, BcChannel, RbChannel["MVC"], RbChannel["VC"], MvcChannel,
\* VcChannel, SSVCChannel, SSVCDecisionsChannel
Tables == {"BVB", "BC", "RB/MVC", "RB/VC", "MVC", "VC", "SSVC", "SSVCDS"}
\* The keys initRBChannels gives RbChannel
RbSubTypes == {"MVC", "VC"}
Locks == KeyedTypes

CanDecodeInner(type, p) ==
    CASE type \in {"BVB", "BC"} -> CanDecodeBc(p)
      [] type \in {"RB", "RB_ABC"} -> CanDecodeRb(p)
      [] type = "MVC" -> CanDecodeMvc(p)
      [] type = "VC" -> CanDecodeVc(p)
      [] type = "ABC" -> CanDecodeAbc(p)
      [] type = "SSVC" -> CanDecodeSSVC(p)
      [] type = "SSVCDS" -> CanDecodeDecision(p)
      [] type = "SSABC" -> CanDecodeSSABC(p)
      [] OTHER -> TRUE

\* The struct sent on the channel, next to From
DecodeInner(type, p) ==
    CASE type \in {"BVB", "BC"} -> DecodeBc(p)
      [] type \in {"RB", "RB_ABC"} -> DecodeRb(p)
      [] type = "MVC" -> DecodeMvc(p)
      [] type = "VC" -> DecodeVc(p)
      [] type = "ABC" -> DecodeAbc(p)
      [] type = "SSVC" -> DecodeSSVC(p)
      [] type = "SSVCDS" -> [Vector |-> DecodeDecision(p).Vector]
      [] type = "SSABC" -> DecodeSSABC(p)
      [] OTHER -> NoBody

\* tag, rbid, cid, vcid, ssvcid
InstanceKey(type, p) ==
    CASE type \in {"BVB", "BC"} -> DecodeBc(p).Tag
      [] type = "RB" -> DecodeRb(p).Rbid
      [] type = "MVC" -> DecodeMvc(p).Cid
      [] type = "VC" -> DecodeVc(p).Vcid
      [] type = "SSVC" -> DecodeSSVC(p).SSVCid
      [] type = "SSVCDS" -> DecodeDecision(p).SSVCid
      [] OTHER -> 0

\* The map the case indexes: RbChannel[rbType] for RB
TableOf(type, p) == IF type = "RB" THEN "RB/" \o DecodeRb(p).Type ELSE type

\* Decode the envelope, verify, decode the typed message up to its lock
HmStart(h) ==
    /\ ~fatal /\ hd[h].pc = "start"
    /\ IF ~CanDecodeMessage(hd[h].frame)
       THEN fatal' = TRUE /\ UNCHANGED hd
       ELSE LET message == DecodeMessage(hd[h].frame)
                type == message.Type
                p == message.Payload
            IN IF ~Authentic(message)
               THEN /\ hd' = [hd EXCEPT ![h].pc = "done", ![h].msg = message]
                    /\ UNCHANGED fatal
               ELSE IF type \notin KeyedTypes \cup StreamTypes
               THEN /\ hd' = [hd EXCEPT ![h].pc = "done", ![h].msg = message]
                    /\ UNCHANGED fatal
               ELSE IF ~CanDecodeInner(type, p)
               THEN fatal' = TRUE /\ UNCHANGED hd
               ELSE IF type \in StreamTypes
               THEN /\ hd' = [hd EXCEPT ![h].pc = "send", ![h].msg = message,
                                        ![h].ch = GlobalChan(type),
                                        ![h].body = DecodeInner(type, p)]
                    /\ UNCHANGED fatal
               ELSE /\ hd' = [hd EXCEPT ![h].pc = "lock", ![h].msg = message,
                                        ![h].table = TableOf(type, p), ![h].lock = type,
                                        ![h].key = InstanceKey(type, p),
                                        ![h].body = DecodeInner(type, p)]
                    /\ UNCHANGED fatal
    /\ UNCHANGED <<cfgVars, reqVars, outVars, rx, nframes, acks, Channel, Mutex, made, delivered>>

\* XxxMutex.Lock() returns once no other goroutine holds the lock
CanLock(l) == Mutex[l] = 0

HmLock(h) ==
    /\ ~fatal /\ hd[h].pc = "lock"
    /\ CanLock(hd[h].lock)
    /\ Mutex' = [Mutex EXCEPT ![hd[h].lock] = h]
    /\ hd' = [hd EXCEPT ![h].pc = "check"]
    /\ UNCHANGED <<cfgVars, reqVars, outVars, fatal, rx, nframes, acks, Channel, made, delivered>>

\* A handler that made a queue for every message, registered key or not
AlwaysMake(h) ==
    /\ ~fatal /\ hd[h].pc = "check"
    /\ hd' = [hd EXCEPT ![h].pc = "make"]
    /\ UNCHANGED <<cfgVars, reqVars, outVars, fatal, rx, nframes, acks, Channel, Mutex, made, delivered>>

\* if _, in := XxxChannel[key]; !in
HmCheck(h) ==
    /\ ~fatal /\ hd[h].pc = "check"
    /\ hd' = [hd EXCEPT ![h].pc =
                IF hd[h].table \in Tables /\ hd[h].key \in DOMAIN Channel[hd[h].table]
                THEN "read" ELSE "make"]
    /\ UNCHANGED <<cfgVars, reqVars, outVars, fatal, rx, nframes, acks, Channel, Mutex, made, delivered>>

\* A handler that made the missing map RbChannel[rbType] before the queue
MakeOnDemand(h) ==
    /\ ~fatal /\ hd[h].pc = "make"
    /\ LET ch == [t |-> hd[h].table, k |-> hd[h].key, n |-> Len(made) + 1]
           old == IF hd[h].table \in DOMAIN Channel THEN Channel[hd[h].table] ELSE EmptyMap
       IN /\ Channel' = (hd[h].table :> ((hd[h].key :> ch) @@ old)) @@ Channel
          /\ made' = Append(made, [ch |-> ch, by |-> h])
          /\ hd' = [hd EXCEPT ![h].pc = "read"]
    /\ UNCHANGED <<cfgVars, reqVars, outVars, fatal, rx, nframes, acks, Mutex, delivered>>

\* XxxChannel[key] = make(chan ...); on the nil map RbChannel[rbType] it panics
HmMake(h) ==
    /\ ~fatal /\ hd[h].pc = "make"
    /\ IF hd[h].table \notin Tables
       THEN fatal' = TRUE /\ UNCHANGED <<hd, Channel, made>>
       ELSE LET ch == [t |-> hd[h].table, k |-> hd[h].key, n |-> Len(made) + 1]
            IN /\ Channel' = [Channel EXCEPT ![hd[h].table] = (hd[h].key :> ch) @@ @]
               /\ made' = Append(made, [ch |-> ch, by |-> h])
               /\ hd' = [hd EXCEPT ![h].pc = "read"]
               /\ UNCHANGED fatal
    /\ UNCHANGED <<cfgVars, reqVars, outVars, rx, nframes, acks, Mutex, delivered>>

\* A handler that kept the lock over its queue send
ReadKeepLock(h) ==
    /\ ~fatal /\ hd[h].pc = "read"
    /\ hd' = [hd EXCEPT ![h].pc = "send", ![h].ch = Channel[hd[h].table][hd[h].key]]
    /\ UNCHANGED <<cfgVars, reqVars, outVars, fatal, rx, nframes, acks, Channel, Mutex, made, delivered>>

\* msgChannel := XxxChannel[key]; XxxMutex.Unlock()
HmRead(h) ==
    /\ ~fatal /\ hd[h].pc = "read"
    /\ hd' = [hd EXCEPT ![h].pc = "send", ![h].ch = Channel[hd[h].table][hd[h].key]]
    /\ Mutex' = [Mutex EXCEPT ![hd[h].lock] = 0]
    /\ UNCHANGED <<cfgVars, reqVars, outVars, fatal, rx, nframes, acks, Channel, made, delivered>>

\* A dispatcher that delivered the frames of a peer in the order received
SendInOrder(h) ==
    /\ ~fatal /\ hd[h].pc = "send"
    /\ \A g \in DOMAIN hd : (g < h /\ hd[g].peer = hd[h].peer) => hd[g].pc = "done"
    /\ delivered' = Append(delivered, [ch |-> hd[h].ch, From |-> hd[h].msg.From,
                                       body |-> hd[h].body, h |-> h])
    /\ hd' = [hd EXCEPT ![h].pc = "done"]
    /\ UNCHANGED <<cfgVars, reqVars, outVars, fatal, rx, nframes, acks, Channel, Mutex, made>>

\* msgChannel <- struct{...}: completes when the consumer of that channel receives
HmSend(h) ==
    /\ ~fatal /\ hd[h].pc = "send"
    /\ delivered' = Append(delivered, [ch |-> hd[h].ch, From |-> hd[h].msg.From,
                                       body |-> hd[h].body, h |-> h])
    /\ hd' = [hd EXCEPT ![h].pc = "done"]
    /\ UNCHANGED <<cfgVars, reqVars, outVars, fatal, rx, nframes, acks, Channel, Mutex, made>>

\* ------------------------------------------------------- specifications
vars == <<cfgVars, fatal, outVars, inVars, reqVars>>

\* No client request received yet
InitRequests ==
    /\ RequestChannel = <<>>
    /\ fw = <<>>
    /\ nreq = 0
    /\ consumed = <<>>

\* After Subscribe: every receiver task at its recv; initRBChannels has run
InitIn ==
    /\ rx = [i \in SubscribePeers |-> IdleRx]
    /\ nframes = 0
    /\ acks = [i \in SubscribePeers |-> 0]
    /\ hd = <<>>
    /\ Channel = [t \in Tables |-> EmptyMap]
    /\ Mutex = [l \in Locks |-> 0]
    /\ made = <<>>
    /\ delivered = <<>>

InitConfig ==
    /\ scenario \in Scenarios
    /\ byzantine \in BOOLEAN
    /\ ID \in Servers
    /\ fatal = FALSE

\* The pipeline runs leave the mutating scenarios to SpecInject
InitPipelineConfig ==
    /\ scenario \in {"NORMAL", "IDLE"}
    /\ byzantine \in BOOLEAN
    /\ ID \in Servers
    /\ fatal = FALSE

\* After InitializeMessenger and TransmitMessages: every sender task at its receive
InitOut ==
    /\ bpc = [c \in Callers |-> "idle"]
    /\ bi = [c \in Callers |-> 0]
    /\ bmsg = [c \in Callers |-> NoMsg]
    /\ borig = [c \in Callers |-> NoMsg]
    /\ bhanded = [c \in Callers |-> NoneHanded]
    /\ bhandedAt = [c \in Callers |-> NeverHanded]
    /\ btimedOut = [c \in Callers |-> {}]
    /\ belapsed = [c \in Callers |-> 0]
    /\ MessageChannel = MessengerPeers
    /\ tx = [i \in TransmitPeers |-> [pc |-> "range", msg |-> NoMsg]]
    /\ enq = [i \in MessengerPeers |-> <<>>]
    /\ wire = [i \in MessengerPeers |-> <<>>]
    /\ MsgComplexity = 0 /\ MsgSize = 0 /\ MsgMutex = NoTask
    /\ rc = IdleReply
    /\ sentCount = 0 /\ sentBytes = 0

Init == InitPipelineConfig /\ pending = PipelineMessages /\ InitOut /\ InitIn /\ InitRequests

Next ==
    \/ \E c \in Callers : BroadcastEnter(c)
    \/ \E c \in Callers : BroadcastSend(c)
    \/ \E c \in Callers : BroadcastTimeout(c)
    \/ \E i \in DOMAIN tx : TxSend(i)
    \/ \E i \in DOMAIN tx : TxAck(i)
    \/ \E i \in DOMAIN tx : TxLock(i)
    \/ \E i \in DOMAIN tx : TxAccount(i)
    \/ RcPublish
    \/ RcLock
    \/ RcAccount

Spec == Init /\ [][Next]_vars

\* One Broadcast call on each message type; whether a sender task takes the
\* message within the ticker's 10 s is the environment's choice.
InjectSend(c) ==
    BroadcastHandoff(c) /\ UNCHANGED <<cfgVars, reqVars, inVars, MessageChannel, txVars, metricVars, rc>>

InjectTimeout(c) ==
    BroadcastExpire(c) /\ UNCHANGED <<cfgVars, reqVars, inVars, MessageChannel, txVars, metricVars, rc>>

InitInject ==
    InitConfig /\ (\E m \in RichMessages : pending = {m}) /\ InitOut /\ InitIn /\ InitRequests

NextInject ==
    \/ \E c \in Callers : BroadcastEnter(c)
    \/ \E c \in Callers : InjectSend(c)
    \/ \E c \in Callers : InjectTimeout(c)

SpecInject == InitInject /\ [][NextInject]_vars

\* The pipeline of an honest replica 0 with the scheduling the Go runtime gives a
\* Broadcast call: a call at its select is resumed, by the hand-off or by the
\* ticker. Nothing is assumed of the sender tasks, which may stop anywhere.
InitFair ==
    /\ scenario = "NORMAL" /\ byzantine = FALSE /\ ID = 0 /\ fatal = FALSE
    /\ pending = PipelineMessages
    /\ InitOut /\ InitIn /\ InitRequests

SpecFair ==
    /\ InitFair /\ [][Next]_vars
    /\ \A c \in Callers : WF_vars(BroadcastSend(c) \/ BroadcastTimeout(c))

\* The inbound side alone, on replica 0: the consensus layer broadcasts nothing
InitInbound ==
    /\ scenario = "NORMAL" /\ byzantine = FALSE /\ ID = 0 /\ fatal = FALSE
    /\ pending = {}
    /\ InitOut /\ InitIn /\ InitRequests

NextIn ==
    \/ \E i \in DOMAIN rx : RxRecv(i)
    \/ \E i \in DOMAIN rx : RxAck(i)
    \/ \E h \in DOMAIN hd : HmStart(h)
    \/ \E h \in DOMAIN hd : HmLock(h)
    \/ \E h \in DOMAIN hd : HmCheck(h)
    \/ \E h \in DOMAIN hd : HmMake(h)
    \/ \E h \in DOMAIN hd : HmRead(h)
    \/ \E h \in DOMAIN hd : HmSend(h)

SpecIn == InitInbound /\ [][NextIn]_vars

\* ---------------------------------------------------------------- claims
Peers == Servers \ {ID}
Handed(c, i) == bhanded[c][i] # NoMsg

\* The frame of handler h failed the signature test
Rejected(h) ==
    /\ CanDecodeMessage(hd[h].frame)
    /\ LET message == DecodeMessage(hd[h].frame)
       IN ~VerifyMessage(message.Payload, message.Signature, message.From)

\* C1: a frame whose signature does not verify never gets past the gate: its
\* handler takes no lock, creates no queue, and sends on no instance queue or
\* global stream, whatever the other handlers do.
C1_AuthenticationGate ==
    \A h \in DOMAIN hd :
        Rejected(h) =>
            /\ hd[h].pc \in {"start", "done"}
            /\ hd[h].ch = NoChan
            /\ \A l \in Locks : Mutex[l] # h
            /\ \A k \in DOMAIN made : made[k].by # h
            /\ \A k \in DOMAIN delivered : delivered[k].h # h

\* A forged MVC frame was dropped while a genuine frame of the same instance was delivered
C1_Witness ==
    \E h, g \in DOMAIN hd :
        /\ Rejected(h) /\ hd[h].pc = "done"
        /\ DecodeMessage(hd[h].frame).Type = "MVC"
        /\ hd[g].pc = "done" /\ hd[g].msg.Type = "MVC"
        /\ hd[g].msg.Payload = DecodeMessage(hd[h].frame).Payload
        /\ \E k \in DOMAIN delivered : delivered[k].h = g

\* C2: for every keyed table and key at most one queue is ever created, a handler
\* that is sending or has sent used the queue registered for its key, and so all
\* tuples of one key are observed on that one queue.
C2_LazyCreationAtomic ==
    /\ \A a, b \in DOMAIN made :
          (made[a].ch.t = made[b].ch.t /\ made[a].ch.k = made[b].ch.k) => a = b
    /\ \A h \in DOMAIN hd :
          (hd[h].pc = "send" /\ hd[h].table \in Tables) =>
              /\ hd[h].key \in DOMAIN Channel[hd[h].table]
              /\ hd[h].ch = Channel[hd[h].table][hd[h].key]
    /\ \A k \in DOMAIN delivered :
          delivered[k].ch.t \in Tables =>
              /\ delivered[k].ch.k \in DOMAIN Channel[delivered[k].ch.t]
              /\ delivered[k].ch = Channel[delivered[k].ch.t][delivered[k].ch.k]
              /\ hd[delivered[k].h].table = delivered[k].ch.t
              /\ hd[delivered[k].h].key = delivered[k].ch.k

\* Two handlers of MVC frames with one cid, from two peers, were both in flight
\* and both tuples were observed on the one queue made for that cid
C2_Witness ==
    /\ Len(made) = 1 /\ Len(delivered) = 2
    /\ delivered[1].ch = delivered[2].ch
    /\ delivered[1].ch = made[1].ch
    /\ delivered[1].ch.t = "MVC"
    /\ delivered[1].From # delivered[2].From
    /\ delivered[1].h = 2 /\ delivered[2].h = 1

\* C3: what the sender task of peer i has put on the wire is, frame by frame and
\* in order, the encoding of what was handed to MessageChannel[i], less at most
\* the one message the task holds and has not sent yet.
C3_WireOrderIsEnqueueOrder ==
    \A i \in DOMAIN wire :
        /\ Len(wire[i]) <= Len(enq[i])
        /\ Len(enq[i]) - Len(wire[i]) <= 1
        /\ \A k \in 1..Len(wire[i]) : wire[i][k] = EncodeMessage(enq[i][k])

\* Two different messages were handed to one peer and both are on the wire
C3_Witness ==
    \E i \in DOMAIN wire :
        /\ Len(wire[i]) = 2 /\ Len(enq[i]) = 2
        /\ enq[i][1] # enq[i][2]

\* C4: ID is no key of MessageChannel, no Broadcast hands or enqueues a message
\* for ID, and the peers with a queue, a sender task and a receiver task are
\* exactly the servers other than ID.
C4_SelfExclusion ==
    /\ MessageChannel = Peers
    /\ DOMAIN tx = Peers
    /\ DOMAIN rx = Peers
    /\ DOMAIN enq = Peers /\ DOMAIN wire = Peers
    /\ \A c \in Callers : ~Handed(c, ID) /\ ID \notin btimedOut[c]

\* A replica in the middle of the id range finished a Broadcast that reached every other server
C4_Witness ==
    /\ ID = 1
    /\ \E c \in Callers :
          /\ bpc[c] = "done"
          /\ \A i \in Peers : Handed(c, i) /\ Len(enq[i]) >= 1

\* C5: on a Byzantine replica under IDLE, Broadcast hands nothing to any peer,
\* nothing is enqueued or put on the wire, and the metrics hold only what
\* ReplyClient has added.
C5_IdleDrop ==
    (scenario = "IDLE" /\ byzantine) =>
        /\ \A i \in DOMAIN enq : enq[i] = <<>> /\ wire[i] = <<>>
        /\ \A i \in DOMAIN tx : tx[i].pc = "range"
        /\ \A c \in Callers : bhanded[c] = NoneHanded /\ btimedOut[c] = {}
        /\ MsgComplexity = (IF rc.pc = "done" THEN 1 ELSE 0)
        /\ MsgSize = (IF rc.pc = "done" THEN Len(rc.frame) ELSE 0)

\* Both Broadcast calls, the SSVCDS one included, have returned on such a replica
C5_Witness ==
    /\ scenario = "IDLE" /\ byzantine
    /\ pending = {}
    /\ \A c \in Callers : bpc[c] = "done"
    /\ \E c \in Callers : borig[c].Type = "SSVCDS"
    /\ \E c \in Callers : borig[c].Type = "BVB"

\* C6: under every scenario and flag, each recipient of a Broadcast of an SSVCDS
\* message is handed the message that was passed to Broadcast.
C6_DecisionExempt ==
    \A c \in Callers : \A i \in Servers :
        (borig[c].Type = "SSVCDS" /\ Handed(c, i)) => bhanded[c][i] = borig[c]

\* A Byzantine replica under HALF_&_HALF handed an SSVCDS message to every peer
C6_Witness ==
    /\ scenario = "HALF_&_HALF" /\ byzantine
    /\ \E c \in Callers :
          /\ borig[c].Type = "SSVCDS" /\ borig[c].Payload # <<>>
          /\ bpc[c] = "done"
          /\ \A i \in Peers : Handed(c, i)

\* The value the attack gives recipient i for tag t
AttackValue(t, i) ==
    CASE t % 3 = 0 -> i % 2
      [] t % 3 = 1 -> 0
      [] t % 3 = 2 -> 1

\* C7: on a Byzantine replica under BC_ATTACK, what recipient i is handed for a
\* BVB or BC message with tag t is a message of that type with tag t and value
\* i mod 2, 0 or 1 as t mod 3 is 0, 1 or 2, whatever the original value.
C7_BcAttackValue ==
    (scenario = "BC_ATTACK" /\ byzantine) =>
        \A c \in Callers : \A i \in Servers :
            (borig[c].Type \in {"BVB", "BC"} /\ Handed(c, i)) =>
                /\ bhanded[c][i].Type = borig[c].Type
                /\ CanDecodeBc(bhanded[c][i].Payload)
                /\ DecodeBc(bhanded[c][i].Payload).Tag = DecodeBc(borig[c].Payload).Tag
                /\ DecodeBc(bhanded[c][i].Payload).Value =
                       AttackValue(DecodeBc(borig[c].Payload).Tag, i)

\* N = 4, ID = 0, tag 2, original value 0: peers 1, 2 and 3 were all handed value 1
C7_Witness ==
    /\ scenario = "BC_ATTACK" /\ byzantine /\ ID = 0
    /\ borig[1].Type = "BVB"
    /\ DecodeBc(borig[1].Payload) = [Tag |-> 2, Value |-> 0]
    /\ \A i \in Peers : Handed(1, i) /\ DecodeBc(bhanded[1][i].Payload).Value = 1

\* The payload x is of the type and instance of the payload p and carries v
\* in its value field(s)
CarriesValue(type, p, x, v) ==
    CASE type \in {"BVB", "BC"} ->
            /\ CanDecodeBc(x)
            /\ DecodeBc(x).Tag = DecodeBc(p).Tag
            /\ Itoa(DecodeBc(x).Value) = v
      [] type = "MVC" ->
            CanDecodeMvc(x) /\ DecodeMvc(x) = [DecodeMvc(p) EXCEPT !.Value = v]
      [] type = "VC" ->
            CanDecodeVc(x) /\ DecodeVc(x) = [DecodeVc(p) EXCEPT !.Value = v]
      [] type = "ABC" ->
            CanDecodeAbc(x) /\ DecodeAbc(x) = [DecodeAbc(p) EXCEPT !.Value = v]
      [] type = "SSVC" ->
            /\ CanDecodeSSVC(x)
            /\ DecodeSSVC(x).SSVCid = DecodeSSVC(p).SSVCid
            /\ DOMAIN DecodeSSVC(x).Content = DOMAIN DecodeSSVC(p).Content
            /\ \A t \in DOMAIN DecodeSSVC(x).Content :
                  /\ Len(DecodeSSVC(x).Content[t]) = Len(DecodeSSVC(p).Content[t])
                  /\ \A k \in 1..Len(DecodeSSVC(x).Content[t]) :
                        DecodeSSVC(x).Content[t][k].Value = v
      [] type = "SSABC" ->
            /\ CanDecodeSSABC(x)
            /\ DOMAIN DecodeSSABC(x).Content = DOMAIN DecodeSSABC(p).Content
            /\ \A t \in DOMAIN DecodeSSABC(x).Content :
                  /\ Len(DecodeSSABC(x).Content[t]) = Len(DecodeSSABC(p).Content[t])
                  /\ \A k \in 1..Len(DecodeSSABC(x).Content[t]) :
                        DecodeSSABC(x).Content[t][k].Value = v
      [] OTHER -> FALSE

\* The same for an RB / RB_ABC payload, whose value is a nested message
CarriesNested(p, x, v) ==
    /\ CanDecodeRb(x)
    /\ DecodeRb(x).Rbid = DecodeRb(p).Rbid
    /\ DecodeRb(x).Type = DecodeRb(p).Type
    /\ CanDecodeMessage(DecodeRb(x).Value)
    /\ LET in == DecodeMessage(DecodeRb(p).Value)
           out == DecodeMessage(DecodeRb(x).Value)
       IN out.Type = in.Type /\ CarriesValue(in.Type, in.Payload, out.Payload, v)

\* C8: on a Byzantine replica under HALF_&_HALF or BZ_ALL, what recipient i is
\* handed for a message of any type but SSVCDS decodes to a message of the same
\* type and instance whose value field(s) hold the digits of i mod 2
\* (HALF_&_HALF) or of 0 (BZ_ALL).
C8_ModifiedAsSpecified ==
    (scenario \in {"HALF_&_HALF", "BZ_ALL"} /\ byzantine) =>
        \A c \in Callers : \A i \in Servers :
            (borig[c].Type # "SSVCDS" /\ Handed(c, i)) =>
                LET v == IF scenario = "HALF_&_HALF" THEN Itoa(i % 2) ELSE Itoa(0)
                IN /\ bhanded[c][i].Type = borig[c].Type
                   /\ IF borig[c].Type \in {"RB", "RB_ABC"}
                      THEN CarriesNested(borig[c].Payload, bhanded[c][i].Payload, v)
                      ELSE CarriesValue(borig[c].Type, borig[c].Payload,
                                        bhanded[c][i].Payload, v)

\* The tasks that completed a send and have not yet added it to the counters
RECURSIVE UncountedBytes(_)
UncountedBytes(peers) ==
    IF peers = {} THEN 0
    ELSE LET i == CHOOSE x \in peers : TRUE
         IN (IF tx[i].pc \in {"lock", "count"} THEN Len(EncodeMessage(tx[i].msg)) ELSE 0)
            + UncountedBytes(peers \ {i})
UncountedSends ==
    Cardinality({i \in DOMAIN tx : tx[i].pc \in {"lock", "count"}})
    + (IF rc.pc \in {"lock", "count"} THEN 1 ELSE 0)
UncountedSize ==
    UncountedBytes(DOMAIN tx) + (IF rc.pc \in {"lock", "count"} THEN Len(rc.frame) ELSE 0)

C10_HandoffWithinWindow ==
    \A c \in Callers :
        (ID = 0 /\ 2 \in btimedOut[c] /\ Handed(c, 1) /\ Handed(c, 3)) =>
            /\ bhandedAt[c][1] < TickerSeconds
            /\ bhandedAt[c][3] < TickerSeconds

\* The sender task of peer i is at its receive on MessageChannel[i]
Accepting(i) == i \in DOMAIN tx /\ tx[i].pc = "range"

\* What holds of the calls in every state: a call at its select can always take
\* a step; a peer is dropped or handed, never both; what a peer's sender task
\* received is one message per call that handed to it; a call that returned
\* has dealt with every peer
CallsIsolated ==
    \A c \in Callers :
        /\ bpc[c] = "select" => ENABLED (BroadcastSend(c) \/ BroadcastTimeout(c))
        /\ \A i \in Servers : ~(Handed(c, i) /\ i \in btimedOut[c])
        /\ (bpc[c] = "done" /\ ~IdleDrop) =>
              \A i \in Peers : Handed(c, i) \/ i \in btimedOut[c]
        /\ \A i \in Peers : Len(enq[i]) = Cardinality({d \in Callers : Handed(d, i)})

\* A timeout drops for the one peer whose sender task was not accepting, and
\* every step of a call moves it on to a later peer
CallStep ==
    \A c \in Callers :
        /\ btimedOut'[c] # btimedOut[c] =>
              /\ btimedOut'[c] = btimedOut[c] \cup {bi[c]}
              /\ ~Accepting(bi[c])
              /\ bhanded'[c] = bhanded[c]
        /\ (bpc[c] = "select" /\ <<bpc[c], bi[c]>>' # <<bpc[c], bi[c]>>) =>
              (bpc'[c] = "done" \/ bi'[c] > bi[c])

\* C11: every Broadcast call returns, whichever sender tasks are blocked; a
\* timeout drops the message for that one peer, whose sender task was not
\* accepting; every other peer is handed one copy by the call.
C11_TimeoutIsolation ==
    /\ []CallsIsolated
    /\ [][CallStep]_vars
    /\ \A c \in Callers : (bpc[c] = "select") ~> (bpc[c] = "done")

\* A call returned having dropped the message for one blocked peer and handed
\* it to the peers before and after it
C11_Witness ==
    /\ ID = 0
    /\ \E c \in Callers :
          /\ bpc[c] = "done"
          /\ btimedOut[c] = {2}
          /\ Handed(c, 1) /\ Handed(c, 3)
          /\ Len(enq[1]) >= 1 /\ Len(enq[3]) >= 1

\* Every registered key is still registered after the step, with the same queue
QueuesKept ==
    /\ MessageChannel \subseteq MessageChannel'
    /\ \A t \in Tables : \A k \in DOMAIN Channel[t] :
          k \in DOMAIN Channel'[t] /\ Channel'[t][k] = Channel[t][k]

\* C12: once a queue is registered under a key of MessageChannel or of a typed
\* table, every later state maps the key to that queue; no step removes a key
\* or replaces its queue, a second message for the key included.
C12_QueuePermanence == [][QueuesKept]_vars

\* Two messages for one key were routed, and the table still holds the one queue
\* made for the first
C12_Witness ==
    \E h, g \in DOMAIN hd :
        /\ h # g
        /\ hd[h].table \in Tables /\ hd[g].table = hd[h].table /\ hd[g].key = hd[h].key
        /\ hd[h].pc = "done" /\ hd[g].pc = "done"
        /\ \E k \in DOMAIN made :
              /\ made[k].by = h
              /\ Channel[hd[h].table][hd[h].key] = made[k].ch
              /\ hd[g].ch = made[k].ch

\* ------------------------------------------------- sender to receiver
\* One replica, ID, broadcasts; the inbound variables are the dispatcher of one
\* of its peers, the receiving replica, whose receiver tasks are for all
\* servers but itself.
Receiver == CHOOSE r \in Servers : r \notin DOMAIN rx

\* After Subscribe on replica r
InitReceiver(r) ==
    /\ rx = [i \in Servers \ {r} |-> IdleRx]
    /\ nframes = 0
    /\ acks = [i \in Servers \ {r} |-> 0]
    /\ hd = <<>>
    /\ Channel = [t \in Tables |-> EmptyMap]
    /\ Mutex = [l \in Locks |-> 0]
    /\ made = <<>>
    /\ delivered = <<>>

\* The messages of the types routed by an instance key
KeyedMessages ==
    {m \in RichMessages : m.Type \in KeyedTypes /\ TableOf(m.Type, m.Payload) \in Tables}

\* ReceiveSockets[ID].RecvBytes(0) on the receiving replica returns the next
\* frame the sender task of ID put on the wire; go HandleMessage(message)
TripRecv ==
    /\ ~fatal /\ rx[ID].pc = "recv"
    /\ acks[ID] < Len(wire[Receiver])
    /\ LET f == wire[Receiver][acks[ID] + 1]
       IN /\ rx' = [rx EXCEPT ![ID] = [pc |-> "ack", frame |-> f]]
          /\ hd' = Append(hd, [pc |-> "start", peer |-> ID, frame |-> f, msg |-> NoMsg,
                               table |-> "-", lock |-> "-", key |-> 0,
                               ch |-> NoChan, body |-> NoBody])
    /\ nframes' = nframes + 1
    /\ UNCHANGED <<cfgVars, reqVars, outVars, fatal, acks, Channel, Mutex, made, delivered>>

\* ReceiveSockets[ID].Send("", 0) on the receiving replica
TripAck == RxAck(ID)

\* SendSockets[i].Recv(0) returns; from the receiving replica, once it has sent its ACK
TripTxAck(i) ==
    /\ i = Receiver => acks[ID] >= Len(wire[i])
    /\ TxAck(i)

\* One Broadcast of a keyed message on an honest-scenario replica whose sender
\* tasks are all at their receive, so that every hand-off is taken at once
InitTrip ==
    /\ scenario = "NORMAL" /\ byzantine \in BOOLEAN /\ ID \in Servers /\ fatal = FALSE
    /\ \E m \in KeyedMessages : pending = {m}
    /\ InitOut /\ InitRequests
    /\ \E r \in Servers \ {ID} : InitReceiver(r)

NextTrip ==
    \/ \E c \in Callers : BroadcastEnter(c)
    \/ \E c \in Callers : BroadcastSend(c)
    \/ \E i \in DOMAIN tx : TxSend(i)
    \/ \E i \in DOMAIN tx : TripTxAck(i)
    \/ \E i \in DOMAIN tx : TxLock(i)
    \/ \E i \in DOMAIN tx : TxAccount(i)
    \/ TripRecv
    \/ TripAck
    \/ \E h \in DOMAIN hd : HmStart(h)
    \/ \E h \in DOMAIN hd : HmLock(h)
    \/ \E h \in DOMAIN hd : HmCheck(h)
    \/ \E h \in DOMAIN hd : HmMake(h)
    \/ \E h \in DOMAIN hd : HmRead(h)
    \/ \E h \in DOMAIN hd : HmSend(h)

SpecTrip == InitTrip /\ [][NextTrip]_vars

\* The Broadcast has returned, every frame is sent, acknowledged and accounted,
\* and the receiving replica has handled what it received
TripDone ==
    /\ bpc[1] = "done"
    /\ \A i \in DOMAIN tx : tx[i].pc = "range" /\ Len(wire[i]) = 1
    /\ rx[ID].pc = "recv" /\ acks[ID] = 1
    /\ \A h \in DOMAIN hd : hd[h].pc = "done"

\* C13: under NORMAL one Broadcast of a keyed message puts the unmodified
\* envelope on the wire to every peer; the receiving replica routes exactly one
\* tuple, on the queue of the message's type and key, carrying the decoded
\* inner message and the sender's id, and nothing on any other queue; the
\* sender's MsgComplexity grows by exactly N-1.
C13_HonestRoundTrip ==
    /\ ~fatal
    /\ \A i \in DOMAIN wire : \A k \in DOMAIN wire[i] : wire[i][k] = EncodeMessage(borig[1])
    /\ Len(made) <= 1 /\ Len(delivered) <= 1
    /\ \A k \in DOMAIN delivered :
          /\ delivered[k].From = ID
          /\ delivered[k].ch.t = TableOf(borig[1].Type, borig[1].Payload)
          /\ delivered[k].ch.k = InstanceKey(borig[1].Type, borig[1].Payload)
          /\ delivered[k].ch = Channel[delivered[k].ch.t][delivered[k].ch.k]
          /\ delivered[k].body = DecodeInner(borig[1].Type, borig[1].Payload)
    /\ MsgComplexity <= N - 1
    /\ TripDone =>
          /\ Len(delivered) = 1
          /\ MsgComplexity = N - 1
          /\ MsgSize = (N - 1) * Len(EncodeMessage(borig[1]))

\* BVB with tag 2 and value 1 went round: one tuple on BvbChannel[2], from ID
C13_Witness ==
    /\ TripDone
    /\ borig[1].Type = "BVB"
    /\ Len(delivered) = 1
    /\ delivered[1].ch.t = "BVB" /\ delivered[1].ch.k = 2
    /\ delivered[1].body = [Tag |-> 2, Value |-> 1]
    /\ delivered[1].From = ID
    /\ MsgComplexity = N - 1

\* The cases in which the injector is not to act on a message of this type
Ungated(type) ==
    \/ ~byzantine
    \/ scenario = "NORMAL"
    \/ scenario = "BC_ATTACK" /\ type \notin {"BVB", "BC"}

\* C14: on an honest replica under any scenario, under NORMAL, and under
\* BC_ATTACK for a type other than BVB and BC, every recipient of a Broadcast is
\* handed the message as it was passed in: payload, type, from and signature.
C14_InjectorGated ==
    \A c \in Callers : \A i \in Servers :
        (Handed(c, i) /\ Ungated(borig[c].Type)) => bhanded[c][i] = borig[c]

\* An honest replica under BZ_ALL handed a BVB message unchanged to every peer
C14_Witness ==
    /\ scenario = "BZ_ALL" /\ ~byzantine
    /\ \E c \in Callers :
          /\ borig[c].Type = "BVB" /\ DecodeBc(borig[c].Payload).Value = 1
          /\ bpc[c] = "done"
          /\ \A i \in Peers : Handed(c, i) /\ bhanded[c][i] = borig[c]

\* The handlers of frames from peer i, and those of them blocked on a queue send
HandlersOf(i) == {h \in DOMAIN hd : hd[h].peer = i}
BlockedOf(i) == {h \in HandlersOf(i) : hd[h].pc = "send"}

\* C15: a handler blocked on its queue send pushes back on the receiver of its
\* peer: while handlers of peer i are blocked, the receiver stops short of
\* accepting and acknowledging every frame peer i sends.
C15_BackPressure ==
    \A i \in DOMAIN rx :
        BlockedOf(i) # {} =>
            \/ acks[i] < MaxFrames
            \/ Cardinality(BlockedOf(i)) < MaxFrames

\* C16: the receiver task of each peer alternates one recv and one ACK, so the
\* frames acknowledged are the frames received, less the one in hand; and while
\* the process runs the ACK of the frame in hand can always be sent, whatever
\* the handlers spawned so far are doing.
C16_AckNotStalled ==
    \A i \in DOMAIN rx :
        /\ Cardinality(HandlersOf(i)) = acks[i] + (IF rx[i].pc = "ack" THEN 1 ELSE 0)
        /\ (rx[i].pc = "ack" /\ ~fatal) => ENABLED RxAck(i)
        /\ rx[i].pc = "recv" => rx[i].frame = <<>>

\* Two frames of one peer are acknowledged; the handler of the first is blocked
\* on its queue send and nothing was consumed
C16_Witness ==
    \E i \in DOMAIN rx :
        /\ acks[i] = 2 /\ rx[i].pc = "recv"
        /\ delivered = <<>>
        /\ Len(hd) = 2 /\ hd[1].peer = i /\ hd[2].peer = i
        /\ hd[1].pc = "send" /\ hd[1].table = "MVC"

\* The frames the sender tasks of these peers have put on the wire
RECURSIVE FramesSent(_)
FramesSent(peers) ==
    IF peers = {} THEN 0
    ELSE LET i == CHOOSE x \in peers : TRUE
         IN Len(wire[i]) + FramesSent(peers \ {i})

\* The ACKs the sender tasks have received so far
AcksReceived == sentCount - (IF rc.pc = "idle" THEN 0 ELSE 1)

\* In every state: a sender task at its receive has sent all it took; one about
\* to send has taken one more than it sent; the frames sent and not yet
\* acknowledged are those of the tasks waiting in Recv, one each
LockStep ==
    /\ \A i \in DOMAIN tx :
          Len(enq[i]) - Len(wire[i]) = (IF tx[i].pc = "send" THEN 1 ELSE 0)
    /\ FramesSent(DOMAIN tx) - AcksReceived
          = Cardinality({i \in DOMAIN tx : tx[i].pc = "ack"})

\* In every step: a task takes a message only at its receive, sends only the
\* message it holds, and waits in Recv right after the send
LockStepMove ==
    \A i \in DOMAIN tx :
        /\ enq'[i] # enq[i] => (tx[i].pc = "range" /\ tx'[i].pc = "send")
        /\ wire'[i] # wire[i] =>
              /\ tx[i].pc = "send" /\ tx'[i].pc = "ack"
              /\ wire'[i] = Append(wire[i], EncodeMessage(tx[i].msg))
        /\ (tx[i].pc = "ack" /\ tx'[i].pc # "ack") => sentCount' = sentCount + 1

\* C17: for every peer the sender task alternates one wire send and one ACK
\* receive; at most one frame to the peer is sent and unacknowledged, and the
\* task takes the next message from MessageChannel[i] only after the ACK of the
\* previous one.
C17_LockStepSending == []LockStep /\ [][LockStepMove]_vars

\* A second message is held by a sender task whose first frame was acknowledged
\* and accounted, while another task is waiting for its ACK
C17_Witness ==
    \E i, j \in DOMAIN tx :
        /\ i # j
        /\ Len(enq[i]) = 2 /\ Len(wire[i]) = 1 /\ tx[i].pc = "send"
        /\ tx[j].pc = "ack"

\* C18: a handler blocked on a queue send holds no table lock; a lock is held
\* only by a handler between its Lock and its Unlock, which has a step to take
\* while the process runs, so a handler blocked on one instance never keeps
\* another from creating, looking up or delivering to another instance.
C18_NoLockAcrossSend ==
    /\ \A h \in DOMAIN hd :
          hd[h].pc \in {"start", "lock", "send", "done"} => \A l \in Locks : Mutex[l] # h
    /\ \A l \in Locks :
          Mutex[l] # 0 =>
              /\ Mutex[l] \in DOMAIN hd
              /\ hd[Mutex[l]].lock = l
              /\ hd[Mutex[l]].pc \in {"check", "make", "read"}
              /\ ~fatal =>
                    ENABLED (HmCheck(Mutex[l]) \/ HmMake(Mutex[l]) \/ HmRead(Mutex[l]))

\* The handler of MVC cid 1 is blocked on its send; a later MVC message with
\* cid 2 was routed and delivered meanwhile
C18_Witness ==
    /\ Len(hd) = 2
    /\ hd[1].pc = "send" /\ hd[1].table = "MVC" /\ hd[1].key = 1
    /\ hd[2].pc = "done" /\ hd[2].table = "MVC" /\ hd[2].key = 2
    /\ Len(delivered) = 1 /\ delivered[1].h = 2
    /\ Len(made) = 2 /\ made[1].by = 1

\* C19: the handlers are spawned in the order the frames were received, the
\* handler of a later frame waits for no earlier handler before it delivers,
\* and so two consecutive verified frames of one peer for one key can be
\* delivered on the key's queue in the opposite order.
C19_DeliveryUnordered ==
    /\ \A h \in DOMAIN hd : (hd[h].pc = "send" /\ ~fatal) => ENABLED HmSend(h)
    /\ \A k \in DOMAIN delivered :
          /\ delivered[k].h \in DOMAIN hd /\ hd[delivered[k].h].pc = "done"
          /\ \A j \in DOMAIN delivered : delivered[j].h = delivered[k].h => j = k

\* Frames f1 then f2 of peer 1, both verified BVB messages for tag 1, reached
\* BvbChannel[1] as f2 then f1
C19_Witness ==
    /\ Len(hd) = 2 /\ Len(delivered) = 2
    /\ hd[1].peer = 1 /\ hd[2].peer = 1
    /\ hd[1].table = "BVB" /\ hd[1].key = 1 /\ hd[2].table = "BVB" /\ hd[2].key = 1
    /\ hd[1].body.Value = 1 /\ hd[2].body.Value = 0
    /\ delivered[1].h = 2 /\ delivered[2].h = 1
    /\ delivered[1].body.Value = 0 /\ delivered[2].body.Value = 1
    /\ delivered[1].ch = delivered[2].ch
    /\ delivered[1].From = 1 /\ delivered[2].From = 1

\* ------------------------------------------------------ client requests
ClientIds == 0..(MaxClients - 1)

\* RequestChannel <- message proceeds while the buffer has room
CanPut(q) == Len(q) < RequestCapacity
Put(q, r) == Append(q, r)

\* message, err := ServerSockets[i].RecvBytes(0); go handleRequest(message, i);
\* ServerSockets[i].Send("", 0)
ReqRecv(cl) ==
    /\ ~fatal /\ Len(fw) < MaxRequests
    /\ nreq' = nreq + 1
    /\ fw' = Append(fw, [pc |-> "send", req |-> nreq + 1, from |-> cl])
    /\ UNCHANGED <<cfgVars, fatal, outVars, inVars, RequestChannel, consumed>>

\* A forwarder that made room by dropping the oldest entry
SendEvicting(f) ==
    /\ ~fatal /\ f \in DOMAIN fw /\ fw[f].pc = "send"
    /\ RequestChannel' = IF CanPut(RequestChannel) THEN Put(RequestChannel, fw[f].req)
                         ELSE Put(Tail(RequestChannel), fw[f].req)
    /\ fw' = [fw EXCEPT ![f].pc = "done"]
    /\ UNCHANGED <<cfgVars, fatal, outVars, inVars, nreq, consumed>>

\* handleRequest: RequestChannel <- message
FwSend(f) ==
    /\ ~fatal /\ f \in DOMAIN fw /\ fw[f].pc = "send"
    /\ CanPut(RequestChannel)
    /\ RequestChannel' = Put(RequestChannel, fw[f].req)
    /\ fw' = [fw EXCEPT ![f].pc = "done"]
    /\ UNCHANGED <<cfgVars, fatal, outVars, inVars, nreq, consumed>>

\* The consumer's receive from RequestChannel
ReqConsume ==
    /\ ~fatal /\ RequestChannel # <<>>
    /\ consumed' = Append(consumed, Head(RequestChannel))
    /\ RequestChannel' = Tail(RequestChannel)
    /\ UNCHANGED <<cfgVars, fatal, outVars, inVars, fw, nreq>>

\* The requests received so far are in the channel, none consumed: none yet, or
\* one short of the capacity
InitReq ==
    /\ scenario = "NORMAL" /\ byzantine = FALSE /\ ID = 0 /\ fatal = FALSE
    /\ pending = {}
    /\ InitOut /\ InitIn
    /\ RequestChannel \in {<<>>, [k \in 1..(RequestCapacity - 1) |-> k]}
    /\ nreq = Len(RequestChannel)
    /\ fw = <<>>
    /\ consumed = <<>>

NextReq ==
    \/ \E cl \in ClientIds : ReqRecv(cl)
    \/ \E f \in 1..MaxRequests : FwSend(f)
    \/ ReqConsume

\* The consumer keeps consuming, and a forwarder that can put again and again
\* does put (the runtime serves blocked senders in turn)
SpecReq ==
    /\ InitReq /\ [][NextReq]_vars
    /\ WF_vars(ReqConsume)
    /\ \A f \in 1..MaxRequests : SF_vars(FwSend(f))

\* The requests in the channel, those consumed, those held by a forwarder that
\* has not put yet
Queued == {RequestChannel[k] : k \in DOMAIN RequestChannel}
Consumed == {consumed[k] : k \in DOMAIN consumed}
Held == {fw[f].req : f \in {g \in DOMAIN fw : fw[g].pc = "send"}}

\* Every request received is in exactly one place, once; the channel holds at
\* most its capacity; a forwarder can put exactly when there is room
RequestsKept ==
    /\ Len(RequestChannel) <= RequestCapacity
    /\ Queued \cup Consumed \cup Held = 1..nreq
    /\ Len(RequestChannel) + Len(consumed) + Cardinality(Held) = nreq
    /\ \A f \in DOMAIN fw :
          fw[f].pc = "send" => (ENABLED FwSend(f) <=> Len(RequestChannel) < RequestCapacity)

\* An entry leaves the channel only from its head, into the consumer's hands;
\* an entry enters at the tail; nothing else changes the channel
RequestsMove ==
    \/ RequestChannel' = RequestChannel /\ consumed' = consumed
    \/ /\ RequestChannel # <<>>
       /\ RequestChannel' = Tail(RequestChannel)
       /\ consumed' = Append(consumed, Head(RequestChannel))
    \/ /\ consumed' = consumed
       /\ Len(RequestChannel) < RequestCapacity
       /\ \E f \in DOMAIN fw :
             /\ fw[f].pc = "send" /\ fw'[f].pc = "done"
             /\ RequestChannel' = Append(RequestChannel, fw[f].req)

\* Forwarder f was spawned / its request reached the consumer
Forwarding(f) == f \in DOMAIN fw
Delivered(f) == f \in DOMAIN fw /\ fw[f].req \in Consumed

\* C20: RequestChannel never holds more than 100 entries; a forwarder blocks
\* while it is full; no entry in it or held by a forwarder is dropped or
\* overwritten; and with a consumer that keeps consuming every request received
\* reaches the consumer, once.
C20_RequestQueueBounded ==
    /\ []RequestsKept
    /\ [][RequestsMove]_vars
    /\ \A f \in 1..MaxRequests : Forwarding(f) ~> Delivered(f)

\* The channel is full with 100 entries while two forwarders are blocked holding
\* the next requests, and the consumer has not taken anything yet
C20_Witness ==
    /\ Len(RequestChannel) = RequestCapacity
    /\ consumed = <<>>
    /\ Cardinality(Held) = 2
    /\ nreq = RequestCapacity + 2

\* The frame of handler h is a verified RB envelope around a decodable RbMessage
VerifiedRb(h) ==
    /\ CanDecodeMessage(hd[h].frame)
    /\ LET message == DecodeMessage(hd[h].frame)
       IN /\ VerifyMessage(message.Payload, message.Signature, message.From)
          /\ message.Type = "RB"
          /\ CanDecodeRb(message.Payload)
RbOf(h) == DecodeRb(DecodeMessage(hd[h].frame).Payload)
RbTableNames == {"RB/" \o s : s \in {"MVC", "VC", "ABC"}}

\* RbChannel keeps the two maps of initRBChannels; a registered sub-type is
\* delivered on the queue RbChannel[rbType][rbid] with the decoded RbMessage; any
\* other sub-type stops at the assignment, holding RbMutex, with nothing delivered
RbRouted ==
    /\ DOMAIN Channel = Tables
    /\ DOMAIN Channel \cap RbTableNames = {"RB/" \o s : s \in RbSubTypes}
    /\ \A h \in DOMAIN hd :
          VerifiedRb(h) =>
              IF RbOf(h).Type \in RbSubTypes
              THEN /\ hd[h].pc \in {"read", "send", "done"} =>
                         /\ RbOf(h).Rbid \in DOMAIN Channel["RB/" \o RbOf(h).Type]
                         /\ Mutex["RB"] = h <=> hd[h].pc = "read"
                   /\ hd[h].pc \in {"send", "done"} =>
                         hd[h].ch = Channel["RB/" \o RbOf(h).Type][RbOf(h).Rbid]
                   /\ hd[h].pc = "done" =>
                         \E k \in DOMAIN delivered :
                             /\ delivered[k].h = h
                             /\ delivered[k].ch = Channel["RB/" \o RbOf(h).Type][RbOf(h).Rbid]
                             /\ delivered[k].ch.t = "RB/" \o RbOf(h).Type
                             /\ delivered[k].ch.k = RbOf(h).Rbid
                             /\ delivered[k].body = RbOf(h)
                             /\ delivered[k].From = hd[h].peer
              ELSE /\ hd[h].pc \in {"start", "lock", "check", "make"}
                   /\ hd[h].ch = NoChan
                   /\ \A k \in DOMAIN made : made[k].by # h
                   /\ \A k \in DOMAIN delivered : delivered[k].h # h
                   /\ hd[h].pc \in {"check", "make"} => Mutex["RB"] = h
                   /\ (hd[h].pc = "make" /\ ~fatal) => ENABLED HmMake(h)

\* The step of a handler of an unregistered sub-type from its assignment is the
\* process error, and the error is raised by nothing else on the RB path
RbPanics ==
    /\ \A h \in DOMAIN hd :
          (VerifiedRb(h) /\ RbOf(h).Type \notin RbSubTypes /\ hd[h].pc = "make") =>
              /\ hd'[h] = hd[h]
              /\ Mutex'["RB"] = h
              /\ HmMake(h) => fatal'
    /\ \A h \in DOMAIN hd :
          (VerifiedRb(h) /\ RbOf(h).Type \in RbSubTypes /\ hd[h].pc = "make") =>
              (HmMake(h) => ~fatal')

\* C21: RbChannel has exactly the sub-type maps MVC and VC in every reachable
\* state; a verified RB frame of sub-type MVC or VC is routed to
\* RbChannel[rbType][rbid]; a verified RB frame of any other sub-type is never
\* delivered on any queue and ends in a process error raised with RbMutex held.
C21_RbRegistry == []RbRouted /\ [][RbPanics]_vars

\* An RB frame of sub-type MVC was delivered on RbChannel["MVC"][1] and the
\* handler of an RB frame of sub-type ABC stopped the process holding RbMutex
C21_Witness ==
    /\ fatal
    /\ \E h, g \in DOMAIN hd :
          /\ VerifiedRb(h) /\ RbOf(h).Type = "ABC"
          /\ hd[h].pc = "make" /\ Mutex["RB"] = h
          /\ VerifiedRb(g) /\ RbOf(g).Type = "MVC" /\ hd[g].pc = "done"
          /\ \E k \in DOMAIN delivered :
                delivered[k].h = g /\ delivered[k].ch = Channel["RB/MVC"][1]

\* What the injector can return for message m and recipient i, over the map
\* orders its encoder can take
DirectResults(m, i) == {Inject(m, i, o) : o \in EncoderOrders(m)}

\* Two messages that differ at most in the order their Content map was written
SameContent(x, y) ==
    \/ x = y
    \/ /\ x.Type = "SSVC" /\ y.Type = "SSVC"
       /\ DecodeSSVC(x.Payload) = DecodeSSVC(y.Payload)
    \/ /\ x.Type = "SSABC" /\ y.Type = "SSABC"
       /\ DecodeSSABC(x.Payload) = DecodeSSABC(y.Payload)

\* What a recipient is handed, and what the call holds at its select, is a
\* result of the injector on the original message; and the injector for i on any
\* result for j is a result of the injector for i on the original
NoLeak ==
    \A c \in Callers :
        borig[c] # NoMsg =>
            /\ \A i \in Servers :
                  Handed(c, i) =>
                      /\ bhanded[c][i] \in DirectResults(borig[c], i)
                      /\ \A y \in DirectResults(borig[c], i) : SameContent(bhanded[c][i], y)
            /\ bpc[c] = "select" => bmsg[c] \in DirectResults(borig[c], bi[c])
            /\ \A i, j \in Servers :
                  \A x \in DirectResults(borig[c], j) :
                      x # FatalMsg => DirectResults(x, i) \subseteq DirectResults(borig[c], i)

\* The loop passes the message it holds, as injected for the last recipient, to
\* the injector for the next one
Chained ==
    \A c \in Callers :
        (bpc[c] = "select" /\ bpc'[c] = "select" /\ bi'[c] # bi[c]) =>
            bmsg'[c] \in DirectResults(bmsg[c], bi'[c])

\* C22: Broadcast gives the injector for the next recipient the message already
\* injected for the previous one, and still what recipient i is handed is the
\* injector's result on the original message for i: the injector for i applied
\* to the result for j gives the result for i, under every scenario.
C22_NoMutationLeak == []NoLeak /\ [][Chained]_vars

\* HALF_&_HALF on replica 0, an RB message: peer 1 was handed the value for odd
\* recipients, peer 2 a different message, and peer 3 again what peer 1 was handed
C22_Witness ==
    /\ scenario = "HALF_&_HALF" /\ byzantine /\ ID = 0
    /\ borig[1].Type = "RB"
    /\ Handed(1, 1) /\ Handed(1, 2) /\ Handed(1, 3)
    /\ bhanded[1][1] # borig[1]
    /\ bhanded[1][2] # bhanded[1][1]
    /\ bhanded[1][3] = bhanded[1][1]
    /\ CarriesNested(borig[1].Payload, bhanded[1][3].Payload, Itoa(1))
====
